---------------------------- MODULE Spec2Model ----------------------------
(***************************************************************************)
(* Model of backtest/bt_trump_oco.py: align_posts, compute_book_metrics,   *)
(* calc_x_bp and the per-event entry/exit state machine of                 *)
(* simulate_trades.                                                        *)
(*                                                                         *)
(* Units.  Timestamps and durations are integers in milliseconds.  Prices  *)
(* of book rows are integers (price ticks).  Quantities in basis points    *)
(* are integers in hundredths of a bp.  Every price derived by the         *)
(* simulator (long_stop, entry_price, tp, sl, ...) is an exact decimal     *)
(* with 18 fractional digits, held as 8 little-endian limbs of base 1000   *)
(* (limbs 1..6 the fraction, limbs 7..8 the integer part); three           *)
(* successive multiplications by (1 +- bp/10000) are exact in this form,   *)
(* and no derived price is multiplied more often than that.                *)
(* Row positions are 1-based here and 0-based in the code.                 *)
(***************************************************************************)
EXTENDS Integers, Sequences, FiniteSets, TLC

VARIABLES
    posts_df,       \* input: raw post timestamps (one per row of posts_df)
    book_df,        \* input: rows [timestamp, price (, spread_bp)]
    config,         \* input: the configuration map
    latency_ms,     \* input: latency in ms
    posts,          \* align_posts(posts_df): rows [timestamp, post_count]
    book,           \* compute_book_metrics(book_df)
    slip_bp_param,  \* hundredths of a bp
    pc,             \* "start", "for_post", "scan", "done", "error";
                    \* "calc", "calc_done" when calc_x_bp is run alone
    ev,             \* position in posts.index of the event being processed
    i,              \* position in book of the next row of the inner loop
    cur_stdev_bp,   \* current["rolling_1s_stdev_bp"], hundredths of a bp
    x_bp,           \* hundredths of a bp
    long_stop, short_stop,
    position,       \* "none", "long", "short"
    entry_price, entry_time, tp, sl, time_exit,
    trades,
    hist            \* ghost: per event, the rows its scan armed/entered/exited on

vars == << posts_df, book_df, config, latency_ms, posts, book, slip_bp_param,
           pc, ev, i, cur_stdev_bp, x_bp, long_stop, short_stop, position,
           entry_price, entry_time, tp, sl, time_exit, trades, hist >>

-----------------------------------------------------------------------------
(* Bounds and input domains of the model *)

MaxBook == 3

Prices == {9985, 9996, 10000, 10003, 10016}
FirstPrices == {10000}
FirstTimes == {1000}
Deltas == {0, 500, 180000}
PostTimes == {0, 1000, 1500}
Latencies == {0, 500}
Configs == { << >> }
\* a configuration file that sets the slippage to 10000 bp, beside the empty one
ConfigsSlip == { << >>, [slip_bp_param |-> 1000000] }

-----------------------------------------------------------------------------
(* Program constants *)

FLOOR_MS == 1000          \* dt.floor("1s")
BASELINE_MS == 60000      \* rolling("60s")
STDEV_MS == 1000          \* rolling("1s")
BP == 10000               \* bp denominator
X_MIN == 2                \* calc_x_bp lower clamp
X_MAX == 8                \* calc_x_bp upper clamp
SLIP_DEFAULT == 1         \* config.get("slip_bp_param", 1.0)
TP_BP == 12
SL_BP == 6
TIME_EXIT_MS == 180000    \* pd.Timedelta(seconds=180)

None == "none"

Max(a, b) == IF a >= b THEN a ELSE b
Min(a, b) == IF a <= b THEN a ELSE b

-----------------------------------------------------------------------------
(* Exact decimals: 8 limbs of base 1000, value = sum limb[k] * 1000^(k-7)   *)

Dec(p) == << 0, 0, 0, 0, 0, 0, p % 1000, p \div 1000 >>

RECURSIVE MulCarry(_, _, _, _)
MulCarry(v, m, k, carry) ==
    IF k > Len(v)
    THEN << carry % 1000, (carry \div 1000) % 1000, carry \div 1000000 >>
    ELSE LET t == v[k] * m + carry
         IN  << t % 1000 >> \o MulCarry(v, m, k + 1, t \div 1000)

\* v * m for an integer 0 <= m <= 2000000 : Len(v) + 3 limbs
MulInt(v, m) == MulCarry(v, m, 1, 0)

\* v * (1 + c / (100 * BP)) for c in hundredths of a bp, c >= -100 * BP
MulBp(v, c) == SubSeq(MulInt(v, 100 * BP + c), 3, Len(v) + 2)

RECURSIVE CmpFrom(_, _, _)
CmpFrom(a, b, k) ==
    IF k = 0 THEN 0
    ELSE IF a[k] > b[k] THEN 1
    ELSE IF a[k] < b[k] THEN -1
    ELSE CmpFrom(a, b, k - 1)

\* sign of a - b for two decimals of the same length
Cmp(a, b) == CmpFrom(a, b, Len(a))
Geq(a, b) == Cmp(a, b) >= 0
Leq(a, b) == Cmp(a, b) <= 0
Gt(a, b) == Cmp(a, b) > 0
Lt(a, b) == Cmp(a, b) < 0

RECURSIVE SubBorrow(_, _, _, _)
SubBorrow(a, b, k, borrow) ==
    IF k > Len(a) THEN << >>
    ELSE LET t == a[k] - b[k] - borrow
         IN  << (t + 1000) % 1000 >>
               \o SubBorrow(a, b, k + 1, IF t < 0 THEN 1 ELSE 0)

\* |a - b|
AbsDiff(a, b) == IF Geq(a, b) THEN SubBorrow(a, b, 1, 0) ELSE SubBorrow(b, a, 1, 0)

DecZero == Dec(0)

-----------------------------------------------------------------------------
(* align_posts *)

\* dt.floor("1s")
FloorSec(t) == (t \div FLOOR_MS) * FLOOR_MS

SetMin(S) == CHOOSE x \in S : \A y \in S : x <= y

RECURSIVE SortedSeq(_)
SortedSeq(S) ==
    IF S = {} THEN << >>
    ELSE LET m == SetMin(S) IN << m >> \o SortedSeq(S \ {m})

\* variant: the floored posts are not grouped, one row per raw post
align_posts_Ungrouped(df) ==
    [k \in DOMAIN df |-> [timestamp |-> FloorSec(df[k]), post_count |-> 1]]

\* groupby("timestamp").size(): one row per distinct floored second, ascending
align_posts(df) ==
    LET floored == [k \in DOMAIN df |-> FloorSec(df[k])]
        keys == SortedSeq({ floored[k] : k \in DOMAIN df })
    IN  [n \in DOMAIN keys |->
            [timestamp |-> keys[n],
             post_count |-> Cardinality({ k \in DOMAIN df : floored[k] = keys[n] })]]

-----------------------------------------------------------------------------
(* compute_book_metrics *)

\* sort_values("timestamp"): rows in ascending timestamp order; rows of equal
\* timestamp keep their input order
RECURSIVE sort_values(_)
sort_values(rows) ==
    IF rows = << >> THEN << >>
    ELSE LET n == Len(rows)
             front == sort_values(SubSeq(rows, 1, n - 1))
             r == rows[n]
             k == Cardinality({ j \in DOMAIN front : front[j].timestamp <= r.timestamp })
         IN  SubSeq(front, 1, k) \o << r >> \o SubSeq(front, k + 1, n - 1)

\* first row of the trailing window of row k: rolling(w) of a time-indexed
\* frame takes the rows j <= k with timestamp[j] > timestamp[k] - w
WindowStart(rows, k, w) ==
    SetMin({ j \in 1..k : rows[j].timestamp > rows[k].timestamp - w })

WindowMax(rows, k, w) ==
    LET lo == WindowStart(rows, k, w)
    IN  CHOOSE p \in { rows[j].price : j \in lo..k } :
            \A j \in lo..k : rows[j].price <= p

WindowMin(rows, k, w) ==
    LET lo == WindowStart(rows, k, w)
    IN  CHOOSE p \in { rows[j].price : j \in lo..k } :
            \A j \in lo..k : rows[j].price >= p

RECURSIVE SumFrom(_, _, _)
SumFrom(f, lo, hi) == IF lo > hi THEN 0 ELSE f[lo] + SumFrom(f, lo + 1, hi)

\* floor(sqrt(v)), lo * lo <= v < hi * hi
RECURSIVE IsqrtIn(_, _, _)
IsqrtIn(v, lo, hi) ==
    IF hi - lo <= 1 THEN lo
    ELSE LET mid == (lo + hi) \div 2
         IN  IF mid * mid <= v THEN IsqrtIn(v, mid, hi) ELSE IsqrtIn(v, lo, mid)

Isqrt(v) == IsqrtIn(v, 0, 46340)

\* rolling(w).std().fillna(0) of row k, in hundredths of a price tick:
\* the sample standard deviation (ddof = 1) of the window's prices, NaN
\* (filled with 0) when the window holds fewer than two rows
WindowStd(rows, k, w) ==
    LET lo == WindowStart(rows, k, w)
        n == k - lo + 1
        pmin == WindowMin(rows, k, w)
        d == [j \in lo..k |-> rows[j].price - pmin]
        dd == [j \in lo..k |-> d[j] * d[j]]
        s1 == SumFrom(d, lo, k)
        s2 == SumFrom(dd, lo, k)
    IN  IF n < 2 THEN 0
        ELSE Isqrt(((n * s2 - s1 * s1) * 10000) \div (n * (n - 1)))

\* std / price * 10000, in hundredths of a bp, rounded down to an even count
\* so that the 0.5 * stdev_bp of calc_x_bp is exact
StdevBp(rows, k, w) == 2 * ((WindowStd(rows, k, w) * (BP \div 2)) \div rows[k].price)

compute_book_metrics(df) ==
    LET rows == sort_values(df)
    IN  [k \in DOMAIN rows |->
            rows[k] @@ [baseline_high |-> WindowMax(rows, k, BASELINE_MS),
                        baseline_low |-> WindowMin(rows, k, BASELINE_MS),
                        rolling_1s_stdev_bp |-> StdevBp(rows, k, STDEV_MS)]]

-----------------------------------------------------------------------------
(* calc_x_bp: min(8.0, max(2.0, 0.5 * stdev_bp)), in hundredths of a bp *)

\* variant: the lower clamp is missing
calc_x_bp_NoFloor(stdev_bp) == Min(100 * X_MAX, stdev_bp \div 2)

\* variant: the upper clamp is missing
calc_x_bp_NoCap(stdev_bp) == Max(100 * X_MIN, stdev_bp \div 2)

calc_x_bp(stdev_bp) == Min(100 * X_MAX, Max(100 * X_MIN, stdev_bp \div 2))

-----------------------------------------------------------------------------
(* Input tables *)

Row(t, p) == [timestamp |-> t, price |-> p]

\* price streams of n rows with non-decreasing timestamps
RECURSIVE BooksOfLen(_, _)
BooksOfLen(n, first) ==
    IF n = 0 THEN { << >> }
    ELSE IF n = 1 THEN { << Row(t, p) >> : t \in FirstTimes, p \in first }
    ELSE LET shorter == BooksOfLen(n - 1, first)
         IN  { Append(b, Row(b[n - 1].timestamp + d, p)) :
                   b \in shorter, d \in Deltas, p \in Prices }

BookTables(first) == UNION { BooksOfLen(n, first) : n \in 0..MaxBook }

PostTables == { SortedSeq(S) : S \in SUBSET PostTimes }

-----------------------------------------------------------------------------
(* simulate_trades *)

InitOver(postTables, bookTables, configs, latencies) ==
    /\ posts_df \in postTables
    /\ book_df \in bookTables
    /\ config \in configs
    /\ latency_ms \in latencies
    /\ posts = << >>
    /\ book = << >>
    /\ slip_bp_param = 0
    /\ pc = "start"
    /\ ev = 0
    /\ i = 0
    /\ cur_stdev_bp = None
    /\ x_bp = None
    /\ long_stop = None
    /\ short_stop = None
    /\ position = None
    /\ entry_price = None
    /\ entry_time = None
    /\ tp = None
    /\ sl = None
    /\ time_exit = None
    /\ trades = << >>
    /\ hist = << >>

Init == InitOver(PostTables, BookTables(FirstPrices), Configs, Latencies)

\* config.get("slip_bp_param", 1.0)
ConfigSlip(c) ==
    IF "slip_bp_param" \in DOMAIN c THEN c.slip_bp_param ELSE 100 * SLIP_DEFAULT

scanVars == << i, cur_stdev_bp, x_bp, long_stop, short_stop, position, entry_price,
               entry_time, tp, sl, time_exit >>
inputVars == << posts_df, book_df, config, latency_ms >>
tableVars == << posts, book, slip_bp_param >>

\* lines 55-59
Setup ==
    /\ pc = "start"
    /\ posts' = align_posts(posts_df)
    /\ book' = compute_book_metrics(book_df)
    /\ slip_bp_param' = ConfigSlip(config)
    /\ trades' = << >>
    /\ ev' = 1
    /\ pc' = "for_post"
    /\ UNCHANGED << inputVars, scanVars, hist >>

ArmTime(post_time) == post_time + latency_ms

\* arm_time in book.index
InIndex(arm_time) == \E j \in DOMAIN book : book[j].timestamp = arm_time

\* variant: the scan always starts at the first row of the book
searchsorted_First(arm_time) == 1

\* book.index.searchsorted(arm_time): the insertion point that keeps the
\* index sorted, left of any equal entry
searchsorted(arm_time) ==
    Cardinality({ j \in DOMAIN book : book[j].timestamp < arm_time }) + 1

\* the rows book.loc[arm_time] / book.index.get_loc(arm_time) select
Matches(arm_time) == { j \in DOMAIN book : book[j].timestamp = arm_time }

get_loc(arm_time) == CHOOSE j \in Matches(arm_time) : TRUE

\* variant: the band is laid on the wrong baseline
LongStop_Low(current) ==
    MulBp(Dec(current.baseline_low), calc_x_bp(current.rolling_1s_stdev_bp))

\* lines 77, 79
LongStop(current) == MulBp(Dec(current.baseline_high), calc_x_bp(current.rolling_1s_stdev_bp))
\* lines 77, 80
ShortStop(current) == MulBp(Dec(current.baseline_low), 0 - calc_x_bp(current.rolling_1s_stdev_bp))

HistRec(post_time, k) ==
    [post_time |-> post_time, start_idx |-> k, entry_idx |-> 0, exit_idx |-> 0,
     last |-> 0, side |-> None, entry_price |-> DecZero,
     long_stop |-> IF k = 0 THEN None ELSE LongStop(book[k]),
     short_stop |-> IF k = 0 THEN None ELSE ShortStop(book[k])]

\* lines 74-84, armed on row k
Arm(k) ==
    /\ cur_stdev_bp' = book[k].rolling_1s_stdev_bp
    /\ x_bp' = calc_x_bp(book[k].rolling_1s_stdev_bp)
    /\ long_stop' = LongStop(book[k])
    /\ short_stop' = ShortStop(book[k])
    /\ position' = None
    /\ entry_price' = None
    /\ entry_time' = None
    /\ tp' = None
    /\ sl' = None
    /\ time_exit' = None
    /\ i' = k
    /\ pc' = "scan"
    /\ hist' = Append(hist, HistRec(posts[ev].timestamp, k))
    /\ UNCHANGED << inputVars, tableVars, ev, trades >>

\* line 61: the loop over posts.index is exhausted; line 159
Return ==
    /\ pc = "for_post"
    /\ ev > Len(posts)
    /\ pc' = "done"
    /\ UNCHANGED << inputVars, tableVars, scanVars, ev, trades, hist >>

\* variant: an arm time beyond the stream is raised as an error
SkipEvent_Raise ==
    /\ pc = "for_post"
    /\ ev <= Len(posts)
    /\ LET arm_time == ArmTime(posts[ev].timestamp)
       IN  /\ ~InIndex(arm_time)
           /\ searchsorted(arm_time) > Len(book)
    /\ pc' = "error"
    /\ UNCHANGED << inputVars, tableVars, scanVars, ev, trades, hist >>

\* lines 64-67: continue
SkipEvent ==
    /\ pc = "for_post"
    /\ ev <= Len(posts)
    /\ LET arm_time == ArmTime(posts[ev].timestamp)
       IN  /\ ~InIndex(arm_time)
           /\ searchsorted(arm_time) > Len(book)
    /\ ev' = ev + 1
    /\ hist' = Append(hist, HistRec(posts[ev].timestamp, 0))
    /\ UNCHANGED << inputVars, tableVars, scanVars, pc, trades >>

\* lines 64-69
ArmSearch ==
    /\ pc = "for_post"
    /\ ev <= Len(posts)
    /\ LET arm_time == ArmTime(posts[ev].timestamp)
       IN  /\ ~InIndex(arm_time)
           /\ searchsorted(arm_time) <= Len(book)
           /\ Arm(searchsorted(arm_time))

\* lines 70-72, one row at arm_time
ArmExact ==
    /\ pc = "for_post"
    /\ ev <= Len(posts)
    /\ LET arm_time == ArmTime(posts[ev].timestamp)
       IN  /\ Cardinality(Matches(arm_time)) = 1
           /\ Arm(get_loc(arm_time))

\* lines 70-77, several rows at arm_time: book.loc[arm_time] is a frame,
\* current[...] are Series and max(2.0, 0.5 * stdev_bp) in calc_x_bp raises
\* ValueError (the truth value of a Series is ambiguous)
ArmDuplicate ==
    /\ pc = "for_post"
    /\ ev <= Len(posts)
    /\ Cardinality(Matches(ArmTime(posts[ev].timestamp))) > 1
    /\ pc' = "error"
    /\ UNCHANGED << inputVars, tableVars, scanVars, ev, trades, hist >>

\* row.get("spread_bp", 0.0), hundredths of a bp
Spread(row) == IF "spread_bp" \in DOMAIN row THEN row.spread_bp ELSE 0

\* variant: the spread of the row is ignored
Slippage_NoSpread(row) == slip_bp_param

\* line 89: max(0.5 * spread_bp, slip_bp_param)
Slippage(row) == Max(Spread(row) \div 2, slip_bp_param)

\* line 92
EntryLongCond(price, ls) == Geq(Dec(price), ls)
\* line 99
EntryShortCond(price, ss) == Leq(Dec(price), ss)

\* variant: the time exit is tested before the bracket
ExitReasonLong_TimeFirst(price, t, tpv, slv, texit) ==
    IF t >= texit THEN "time"
    ELSE IF Geq(Dec(price), tpv) THEN "tp"
    ELSE IF Leq(Dec(price), slv) THEN "sl"
    ELSE None

\* variant: a Long has no time exit
ExitReasonLong_NoTime(price, t, tpv, slv, texit) ==
    IF Geq(Dec(price), tpv) THEN "tp"
    ELSE IF Leq(Dec(price), slv) THEN "sl"
    ELSE None

\* lines 109-117
ExitReasonLong(price, t, tpv, slv, texit) ==
    IF Geq(Dec(price), tpv) THEN "tp"
    ELSE IF Leq(Dec(price), slv) THEN "sl"
    ELSE IF t >= texit THEN "time"
    ELSE None

\* variant: the time exit needs strictly more than 180 s
ExitReasonShort_Late(price, t, tpv, slv, texit) ==
    IF Leq(Dec(price), tpv) THEN "tp"
    ELSE IF Geq(Dec(price), slv) THEN "sl"
    ELSE IF t > texit THEN "time"
    ELSE None

\* lines 134-142
ExitReasonShort(price, t, tpv, slv, texit) ==
    IF Leq(Dec(price), tpv) THEN "tp"
    ELSE IF Geq(Dec(price), slv) THEN "sl"
    ELSE IF t >= texit THEN "time"
    ELSE None

\* lines 110, 113, 116
ExitPrice(reason, price, tpv, slv) ==
    IF reason = "tp" THEN tpv ELSE IF reason = "sl" THEN slv ELSE Dec(price)

\* (a - b) / e * 10000 as the exact fraction sign * num / den * 10000;
\* nan when e = 0 (0 / 0 of two floats)
PnlBp(a, b, e) ==
    [nan |-> Cmp(e, DecZero) = 0,
     sign |-> IF Cmp(e, DecZero) = 0 THEN 0 ELSE Cmp(a, b),
     num |-> AbsDiff(a, b), den |-> e]

Trade(post_time, entry_t, exit_t, side, entry_p, exit_p, pnl, reason) ==
    [post_time |-> post_time, entry_time |-> entry_t, exit_time |-> exit_t,
     side |-> side, entry_price |-> entry_p, exit_price |-> exit_p,
     pnl_bp |-> pnl, exit_reason |-> reason]

\* lines 93, 96, 97
EntryLong(ls, slippage_bp) == MulBp(ls, slippage_bp)
TpLong(entry) == MulBp(entry, 100 * TP_BP)
SlLong(entry) == MulBp(entry, 0 - 100 * SL_BP)
\* lines 100, 103, 104
EntryShort(ss, slippage_bp) == MulBp(ss, 0 - slippage_bp)
TpShort(entry) == MulBp(entry, 0 - 100 * TP_BP)
SlShort(entry) == MulBp(entry, 100 * SL_BP)

\* ghost bookkeeping: row k was examined by the scan of event ev
Examined(h, k) == [h EXCEPT ![ev].last = k]
Entered(h, k, side, entry) ==
    [h EXCEPT ![ev].last = k, ![ev].entry_idx = k, ![ev].side = side,
              ![ev].entry_price = entry]

\* variant: a position still open at the end of the stream is closed at the
\* last row's price
Exhaust_ForcedExit ==
    /\ pc = "scan"
    /\ i > Len(book)
    /\ pc' = "for_post"
    /\ ev' = ev + 1
    /\ trades' = IF position = None THEN trades
                 ELSE Append(trades,
                          Trade(posts[ev].timestamp, entry_time, book[Len(book)].timestamp,
                                position, entry_price, Dec(book[Len(book)].price),
                                PnlBp(Dec(book[Len(book)].price), entry_price, entry_price),
                                "time"))
    /\ UNCHANGED << inputVars, tableVars, scanVars, hist >>

\* line 86: the inner loop has run past the last row of book
Exhaust ==
    /\ pc = "scan"
    /\ i > Len(book)
    /\ pc' = "for_post"
    /\ ev' = ev + 1
    /\ UNCHANGED << inputVars, tableVars, scanVars, trades, hist >>

\* lines 92-98
EnterLong ==
    /\ pc = "scan"
    /\ i <= Len(book)
    /\ position = None
    /\ EntryLongCond(book[i].price, long_stop)
    /\ LET entry == EntryLong(long_stop, Slippage(book[i]))
       IN  /\ entry_price' = entry
           /\ entry_time' = book[i].timestamp
           /\ position' = "long"
           /\ tp' = TpLong(entry)
           /\ sl' = SlLong(entry)
           /\ time_exit' = book[i].timestamp + TIME_EXIT_MS
           /\ hist' = Entered(hist, i, "long", entry)
    /\ i' = i + 1
    /\ UNCHANGED << inputVars, tableVars, cur_stdev_bp, x_bp, long_stop, short_stop,
                    pc, ev, trades >>

\* lines 99-105
EnterShort ==
    /\ pc = "scan"
    /\ i <= Len(book)
    /\ position = None
    /\ ~EntryLongCond(book[i].price, long_stop)
    /\ EntryShortCond(book[i].price, short_stop)
    /\ LET entry == EntryShort(short_stop, Slippage(book[i]))
       IN  /\ entry_price' = entry
           /\ entry_time' = book[i].timestamp
           /\ position' = "short"
           /\ tp' = TpShort(entry)
           /\ sl' = SlShort(entry)
           /\ time_exit' = book[i].timestamp + TIME_EXIT_MS
           /\ hist' = Entered(hist, i, "short", entry)
    /\ i' = i + 1
    /\ UNCHANGED << inputVars, tableVars, cur_stdev_bp, x_bp, long_stop, short_stop,
                    pc, ev, trades >>

\* lines 91-105, neither branch taken
NoEntry ==
    /\ pc = "scan"
    /\ i <= Len(book)
    /\ position = None
    /\ ~EntryLongCond(book[i].price, long_stop)
    /\ ~EntryShortCond(book[i].price, short_stop)
    /\ i' = i + 1
    /\ hist' = Examined(hist, i)
    /\ UNCHANGED << inputVars, tableVars, cur_stdev_bp, x_bp, long_stop, short_stop,
                    position, entry_price, entry_time, tp, sl, time_exit, pc, ev,
                    trades >>

\* lines 118-132 and 143-157: append the Trade and break
Close(side, reason, pnl) ==
    /\ trades' = Append(trades,
                    Trade(posts[ev].timestamp, entry_time, book[i].timestamp, side,
                          entry_price, ExitPrice(reason, book[i].price, tp, sl), pnl, reason))
    /\ hist' = [Examined(hist, i) EXCEPT ![ev].exit_idx = i]
    /\ pc' = "for_post"
    /\ ev' = ev + 1
    /\ UNCHANGED << inputVars, tableVars, scanVars >>

\* lines 108-132
ExitLong ==
    /\ pc = "scan"
    /\ i <= Len(book)
    /\ position = "long"
    /\ LET reason == ExitReasonLong(book[i].price, book[i].timestamp, tp, sl, time_exit)
       IN  /\ reason # None
           /\ Close("long", reason,
                    PnlBp(ExitPrice(reason, book[i].price, tp, sl), entry_price, entry_price))

\* lines 133-157
ExitShort ==
    /\ pc = "scan"
    /\ i <= Len(book)
    /\ position = "short"
    /\ LET reason == ExitReasonShort(book[i].price, book[i].timestamp, tp, sl, time_exit)
       IN  /\ reason # None
           /\ Close("short", reason,
                    PnlBp(entry_price, ExitPrice(reason, book[i].price, tp, sl), entry_price))

\* lines 106-157, no exit condition holds: next row
Hold ==
    /\ pc = "scan"
    /\ i <= Len(book)
    /\ position # None
    /\ IF position = "long"
       THEN ExitReasonLong(book[i].price, book[i].timestamp, tp, sl, time_exit) = None
       ELSE ExitReasonShort(book[i].price, book[i].timestamp, tp, sl, time_exit) = None
    /\ i' = i + 1
    /\ hist' = Examined(hist, i)
    /\ UNCHANGED << inputVars, tableVars, cur_stdev_bp, x_bp, long_stop, short_stop,
                    position, entry_price, entry_time, tp, sl, time_exit, pc, ev,
                    trades >>

Next ==
    \/ Setup
    \/ Return
    \/ SkipEvent
    \/ ArmSearch
    \/ ArmExact
    \/ ArmDuplicate
    \/ Exhaust
    \/ EnterLong
    \/ EnterShort
    \/ NoEntry
    \/ ExitLong
    \/ ExitShort
    \/ Hold

Spec == Init /\ [][Next]_vars

\* the same program over the configurations of ConfigsSlip
InitSlip == InitOver(PostTables, BookTables(FirstPrices), ConfigsSlip, Latencies)
SpecSlip == InitSlip /\ [][Next]_vars

-----------------------------------------------------------------------------
(* compute_book_metrics alone, over streams spaced around the window widths *)

DeltasMetrics == {500, 1000, 59500, 60000}

\* price streams of n rows with strictly increasing timestamps, consecutive
\* rows spaced by one of deltas
RECURSIVE BooksSpaced(_, _)
BooksSpaced(n, deltas) ==
    IF n = 1 THEN { << Row(t, p) >> : t \in FirstTimes, p \in Prices }
    ELSE LET shorter == BooksSpaced(n - 1, deltas)
         IN  { Append(b, Row(b[n - 1].timestamp + d, p)) :
                   b \in shorter, d \in deltas, p \in Prices }

MetricsTables(deltas) == UNION { BooksSpaced(n, deltas) : n \in 1..MaxBook }

InitMetrics == InitOver({ << >> }, MetricsTables(DeltasMetrics), Configs, {0})
NextMetrics == Setup
SpecMetrics == InitMetrics /\ [][NextMetrics]_vars

-----------------------------------------------------------------------------
(* simulate_trades over streams whose rows may carry a spread_bp *)

\* spreads of 1 bp and 6 bp, in hundredths of a bp
Spreads == {100, 600}
PricesSpread == {9996, 10000, 10003}
DeltasSpread == {0, 500}
\* the default slippage, and no minimum slippage
ConfigsSpread == { << >>, [slip_bp_param |-> 0] }

RowsSpread(t, p) == { Row(t, p) } \cup { Row(t, p) @@ [spread_bp |-> sp] : sp \in Spreads }

RECURSIVE BooksSpread(_)
BooksSpread(n) ==
    IF n = 0 THEN { << >> }
    ELSE IF n = 1 THEN { << Row(t, p) >> : t \in FirstTimes, p \in FirstPrices }
    ELSE LET shorter == BooksSpread(n - 1)
         IN  UNION { { Append(b, r) : r \in RowsSpread(b[n - 1].timestamp + d, p) } :
                         b \in shorter, d \in DeltasSpread, p \in PricesSpread }

SpreadTables(maxLen) == UNION { BooksSpread(n) : n \in 0..maxLen }

InitSpread ==
    InitOver({ << 0 >>, << 1000 >> }, SpreadTables(MaxBook), ConfigsSpread, Latencies)
SpecSpread == InitSpread /\ [][Next]_vars

-----------------------------------------------------------------------------
(* simulate_trades over book tables given in any row order, and over         *)
(* configurations with a negative slip_bp_param                              *)

Reverse(rows) == [k \in DOMAIN rows |-> rows[Len(rows) + 1 - k]]

\* the chronological tables and the same tables with their rows reversed
UnsortedTables(tables) == tables \cup { Reverse(b) : b \in tables }

InitUnsorted ==
    InitOver(PostTables, UnsortedTables(BookTables(FirstPrices)), Configs, Latencies)
SpecUnsorted == InitUnsorted /\ [][Next]_vars

\* the default slippage, and a slippage of -1 bp
ConfigsNegative == { << >>, [slip_bp_param |-> 0 - 100] }

InitNegative == InitOver(PostTables, BookTables(FirstPrices), ConfigsNegative, Latencies)
SpecNegative == InitNegative /\ [][Next]_vars

-----------------------------------------------------------------------------
(* calc_x_bp alone, over volatilities from -2 bp to beyond the upper clamp *)

MaxStdev == 2100

\* hundredths of a bp, even so that 0.5 * stdev_bp is a whole count
StdevInputs == { 2 * n : n \in (0 - 100)..MaxStdev }

InitCalc ==
    /\ posts_df = << >>
    /\ book_df = << >>
    /\ config = << >>
    /\ latency_ms = 0
    /\ posts = << >>
    /\ book = << >>
    /\ slip_bp_param = 0
    /\ pc = "calc"
    /\ ev = 0
    /\ i = 0
    /\ cur_stdev_bp \in StdevInputs
    /\ x_bp = None
    /\ long_stop = None
    /\ short_stop = None
    /\ position = None
    /\ entry_price = None
    /\ entry_time = None
    /\ tp = None
    /\ sl = None
    /\ time_exit = None
    /\ trades = << >>
    /\ hist = << >>

\* x_bp = calc_x_bp(stdev_bp)
CalcX ==
    /\ pc = "calc"
    /\ x_bp' = calc_x_bp(cur_stdev_bp)
    /\ pc' = "calc_done"
    /\ UNCHANGED << inputVars, tableVars, ev, i, cur_stdev_bp, long_stop, short_stop,
                    position, entry_price, entry_time, tp, sl, time_exit, trades,
                    hist >>

NextCalc == CalcX
SpecCalc == InitCalc /\ [][NextCalc]_vars

-----------------------------------------------------------------------------
(* Vocabulary of the properties *)

Price(j) == book[j].price
Ts(j) == book[j].timestamp
PostTime(e) == posts[e].timestamp

\* the trades recorded for the event of post time pt
TradesOf(pt) == { k \in DOMAIN trades : trades[k].post_time = pt }
TradeOf(pt) == trades[CHOOSE k \in TradesOf(pt) : TRUE]

\* the event's arming step has run and chose a row
ArmedEv(e) == e \in DOMAIN hist /\ hist[e].start_idx > 0
\* the outer loop has moved past the event
Finished(e) == e \in DOMAIN hist /\ e < ev

\* thresholds as the specification states them, from the metrics of row a
StatedX(a) == Min(800, Max(200, book[a].rolling_1s_stdev_bp \div 2))
StatedLongStop(a) == MulBp(Dec(book[a].baseline_high), StatedX(a))
StatedShortStop(a) == MulBp(Dec(book[a].baseline_low), 0 - StatedX(a))

\* row j crosses the thresholds ls / ss
CrossedLong(ls, j) == Geq(Dec(Price(j)), ls)
CrossedShort(ss, j) == Leq(Dec(Price(j)), ss)
Crossed(ls, ss, j) == CrossedLong(ls, j) \/ CrossedShort(ss, j)

\* the bracket of an entered event, from its entry price and entry row
StatedTp(e) ==
    IF hist[e].side = "long" THEN MulBp(hist[e].entry_price, 1200)
    ELSE MulBp(hist[e].entry_price, 0 - 1200)
StatedSl(e) ==
    IF hist[e].side = "long" THEN MulBp(hist[e].entry_price, 0 - 600)
    ELSE MulBp(hist[e].entry_price, 600)
StatedTimeExit(e) == Ts(hist[e].entry_idx) + 180000

\* row j meets an exit condition of a position of the given side and bracket
TpHit(side, tpv, j) ==
    IF side = "long" THEN Geq(Dec(Price(j)), tpv) ELSE Leq(Dec(Price(j)), tpv)
SlHit(side, slv, j) ==
    IF side = "long" THEN Leq(Dec(Price(j)), slv) ELSE Geq(Dec(Price(j)), slv)
TimeHit(texit, j) == Ts(j) >= texit
AnyExit(side, tpv, slv, texit, j) ==
    TpHit(side, tpv, j) \/ SlHit(side, slv, j) \/ TimeHit(texit, j)

-----------------------------------------------------------------------------
\* C1: an armed event opens its position at the first row, at or after the
\* armed row, whose price is >= long_stop or <= short_stop; the thresholds are
\* those of the armed row's metrics and stay unchanged through the scan; no
\* earlier row of the scan crossed either; a row crossing long_stop opens Long.
C1_EntryAtFirstCrossing ==
    \A e \in DOMAIN hist :
        hist[e].start_idx > 0 =>
            LET h == hist[e]
                a == h.start_idx
                n == h.entry_idx
                ls == StatedLongStop(a)
                ss == StatedShortStop(a)
            IN  /\ (e = ev /\ pc = "scan") =>
                       /\ long_stop = ls
                       /\ short_stop = ss
                       /\ position = h.side
                /\ n = 0 =>
                       /\ h.side = None
                       /\ \A j \in a..h.last : ~Crossed(ls, ss, j)
                       /\ TradesOf(h.post_time) = {}
                /\ n > 0 =>
                       /\ a <= n
                       /\ Crossed(ls, ss, n)
                       /\ \A j \in a..(n - 1) : ~Crossed(ls, ss, j)
                       /\ h.side = IF CrossedLong(ls, n) THEN "long" ELSE "short"
                       /\ \A k \in TradesOf(h.post_time) :
                              /\ trades[k].side = h.side
                              /\ trades[k].entry_time = Ts(n)

\* an event entered Short after its scan passed a row that crossed nothing
\* besides the armed row
C1_Witness ==
    \E e \in DOMAIN hist :
        /\ hist[e].start_idx > 0
        /\ hist[e].entry_idx > hist[e].start_idx + 1
        /\ hist[e].side = "short"

\* C2: while a position is open the exit conditions are evaluated in the
\* priority TakeProfit, StopLoss, TimeExit; the first row after entry at which
\* any holds closes the trade with the highest-priority reason that holds and
\* its price; exactly one Trade is appended and no later row is examined.
C2_ExitPriority ==
    \A e \in DOMAIN hist :
        LET h == hist[e]
            n == h.entry_idx
            x == h.exit_idx
            tpv == StatedTp(e)
            slv == StatedSl(e)
            te == StatedTimeExit(e)
        IN  /\ n = 0 => x = 0
            /\ x = 0 => TradesOf(h.post_time) = {}
            /\ (n > 0 /\ e = ev /\ pc = "scan") =>
                   /\ tp = tpv
                   /\ sl = slv
                   /\ time_exit = te
                   /\ entry_price = h.entry_price
            /\ (n > 0 /\ x = 0) =>
                   \A j \in (n + 1)..h.last : ~AnyExit(h.side, tpv, slv, te, j)
            /\ x > 0 =>
                   /\ x > n
                   /\ h.last = x
                   /\ \A j \in (n + 1)..(x - 1) : ~AnyExit(h.side, tpv, slv, te, j)
                   /\ AnyExit(h.side, tpv, slv, te, x)
                   /\ Cardinality(TradesOf(h.post_time)) = 1
                   /\ LET T == TradeOf(h.post_time)
                          r == IF TpHit(h.side, tpv, x) THEN "tp"
                               ELSE IF SlHit(h.side, slv, x) THEN "sl" ELSE "time"
                      IN  /\ T.exit_reason = r
                          /\ T.exit_time = Ts(x)
                          /\ T.entry_price = h.entry_price
                          /\ T.exit_price = IF r = "tp" THEN tpv
                                            ELSE IF r = "sl" THEN slv
                                            ELSE Dec(Price(x))

\* a trade closed as TakeProfit on a row that had also reached time_exit
C2_Witness ==
    \E k \in DOMAIN trades :
        /\ trades[k].exit_reason = "tp"
        /\ trades[k].exit_time >= trades[k].entry_time + 180000

\* the rows after the entry row of event e whose timestamp is >= entry + 180 s
RowsAtDeadline(e) ==
    { j \in (hist[e].entry_idx + 1)..Len(book) : TimeHit(StatedTimeExit(e), j) }

\* C3: a TimeExit trade has exit_time - entry_time >= 180 s; and when no row
\* before entry_time + 180 s reaches tp or sl and the first row at or after
\* entry_time + 180 s reaches neither, exactly one trade is produced for the
\* event, with exit_reason TimeExit at that row.
C3_TimeExit ==
    /\ \A k \in DOMAIN trades :
           trades[k].exit_reason = "time" =>
               trades[k].exit_time - trades[k].entry_time >= 180000
    /\ \A e \in DOMAIN hist :
           (Finished(e) /\ hist[e].entry_idx > 0 /\ RowsAtDeadline(e) # {}) =>
               LET f == SetMin(RowsAtDeadline(e))
                   side == hist[e].side
                   tpv == StatedTp(e)
                   slv == StatedSl(e)
               IN  (\A j \in (hist[e].entry_idx + 1)..f :
                        ~TpHit(side, tpv, j) /\ ~SlHit(side, slv, j)) =>
                       /\ Cardinality(TradesOf(hist[e].post_time)) = 1
                       /\ TradeOf(hist[e].post_time).exit_reason = "time"
                       /\ TradeOf(hist[e].post_time).exit_time = Ts(f)
                       /\ hist[e].exit_idx = f

\* a trade closed as TimeExit on the row exactly 180 s after its entry
C3_Witness ==
    \E k \in DOMAIN trades :
        /\ trades[k].exit_reason = "time"
        /\ trades[k].exit_time - trades[k].entry_time = 180000

\* C4: the armed row of an event is the first row of the book whose
\* timestamp is >= arm_time = post_time + latency, for any book with
\* non-decreasing (possibly equal) timestamps, whether or not a row lies
\* exactly at arm_time; thresholds and scan start from that row.
C4_ArmsFirstAtOrAfter ==
    \A e \in DOMAIN posts :
        (e < ev \/ (e = ev /\ pc \in {"scan", "error"})) =>
            LET S == { j \in DOMAIN book : Ts(j) >= PostTime(e) + latency_ms }
            IN  S # {} =>
                    /\ e \in DOMAIN hist
                    /\ hist[e].start_idx = SetMin(S)

\* the event's arm time lies strictly after the last timestamp of the book
Beyond(e) == book # << >> /\ PostTime(e) + latency_ms > Ts(Len(book))

\* C5: an event whose arm time is strictly after the last timestamp of the
\* stream records no trade and raises no error; the loop continues through
\* the remaining events and the trades already recorded stay.
C5_SkipBeyondEnd ==
    /\ \A e \in DOMAIN posts :
           Beyond(e) =>
               /\ ev >= e => pc # "error"
               /\ pc = "done" => e \in DOMAIN hist
               /\ e \in DOMAIN hist =>
                      /\ hist[e].start_idx = 0
                      /\ TradesOf(PostTime(e)) = {}
    /\ \A e \in DOMAIN hist :
           hist[e].exit_idx > 0 => Cardinality(TradesOf(hist[e].post_time)) = 1

\* the run returned after skipping an event beyond the end of the stream,
\* keeping the trade of the earlier event
C5_Witness ==
    /\ pc = "done"
    /\ Len(trades) = 1
    /\ \E e \in DOMAIN hist : Beyond(e) /\ hist[e].start_idx = 0

C6_State ==
    /\ \A k \in DOMAIN trades :
           /\ \E e \in DOMAIN posts : PostTime(e) = trades[k].post_time
           /\ k > 1 => trades[k - 1].post_time < trades[k].post_time
    /\ pc # "start" =>
           /\ { PostTime(e) : e \in DOMAIN posts }
                  = { FloorSec(posts_df[k]) : k \in DOMAIN posts_df }
           /\ \A e \in DOMAIN posts : e > 1 => PostTime(e - 1) < PostTime(e)

C6_Step ==
    /\ (pc = "scan" /\ position # None /\ pc' = "scan") =>
           UNCHANGED << ev, position, entry_price, entry_time, tp, sl, time_exit >>
    /\ \A k \in DOMAIN trades : k \in DOMAIN trades' /\ trades'[k] = trades[k]
    /\ Len(trades') > Len(trades) =>
           /\ Len(trades') = Len(trades) + 1
           /\ ev' = ev + 1
           /\ trades'[Len(trades')].post_time = PostTime(ev)

\* C6: at most one Trade per PostEvent (per distinct second-aligned post
\* time, whatever its count): an opened position is never re-entered or
\* flipped, a closed event produces nothing more, and the trade list is in
\* strictly ascending post_time order.
C6_OneTradePerEvent == [](C6_State) /\ [][C6_Step]_vars

\* two events, one of them aggregating two posts, each closed with its trade
C6_Witness ==
    /\ pc = "done"
    /\ Len(trades) = 2
    /\ \E e \in DOMAIN posts :
           posts[e].post_count = 2 /\ TradesOf(PostTime(e)) # {}

\* C7: for every Trade, with latency >= 0,
\* post_time <= arm_time <= entry_time <= exit_time, arm_time = post_time + latency.
C7_TimeOrder ==
    \A k \in DOMAIN trades :
        /\ latency_ms >= 0
        /\ trades[k].post_time <= trades[k].post_time + latency_ms
        /\ trades[k].post_time + latency_ms <= trades[k].entry_time
        /\ trades[k].entry_time <= trades[k].exit_time

\* a trade under a positive latency, entered after its arm time and closed
\* after its entry time
C7_Witness ==
    \E k \in DOMAIN trades :
        /\ latency_ms > 0
        /\ trades[k].post_time + latency_ms < trades[k].entry_time
        /\ trades[k].entry_time < trades[k].exit_time

\* C9: an armed event whose scan reaches the end of the stream before entry,
\* or after entry before any exit condition fires, yields no Trade (no exit
\* is forced at the last row); every trade closes on a row where its exit
\* reason holds, and the trades of the other events are kept.
C9_Exhaustion ==
    /\ \A e \in DOMAIN hist :
           (Finished(e) /\ hist[e].start_idx > 0 /\ hist[e].exit_idx = 0) =>
               /\ hist[e].last = Len(book)
               /\ TradesOf(hist[e].post_time) = {}
               /\ hist[e].entry_idx > 0 =>
                      LET tpv == StatedTp(e)
                          slv == StatedSl(e)
                          te == StatedTimeExit(e)
                      IN  \A j \in (hist[e].entry_idx + 1)..Len(book) :
                              ~AnyExit(hist[e].side, tpv, slv, te, j)
    /\ \A e \in DOMAIN hist :
           TradesOf(hist[e].post_time) # {} =>
               /\ hist[e].exit_idx > 0
               /\ LET r == TradeOf(hist[e].post_time).exit_reason
                      x == hist[e].exit_idx
                  IN  \/ r = "tp" /\ TpHit(hist[e].side, StatedTp(e), x)
                      \/ r = "sl" /\ SlHit(hist[e].side, StatedSl(e), x)
                      \/ r = "time" /\ TimeHit(StatedTimeExit(e), x)
    /\ \A e \in DOMAIN hist :
           hist[e].exit_idx > 0 => TradesOf(hist[e].post_time) # {}

\* one event ran out of rows with its position open, another one's trade
\* is recorded
C9_Witness ==
    \E e \in DOMAIN hist :
        /\ Finished(e)
        /\ hist[e].entry_idx > 0
        /\ hist[e].exit_idx = 0
        /\ \E d \in DOMAIN hist : d # e /\ TradesOf(hist[d].post_time) # {}

\* C8: every Trade has side Long or Short, positive entry_price and
\* exit_price, and a pnl_bp whose sign is that of exit_price - entry_price for
\* Long and of entry_price - exit_price for Short.
C8_SidePricesPnlSign ==
    \A k \in DOMAIN trades :
        LET T == trades[k]
        IN  /\ T.side \in {"long", "short"}
            /\ Gt(T.entry_price, DecZero)
            /\ Gt(T.exit_price, DecZero)
            /\ ~T.pnl_bp.nan
            /\ T.side = "long" => T.pnl_bp.sign = Cmp(T.exit_price, T.entry_price)
            /\ T.side = "short" => T.pnl_bp.sign = Cmp(T.entry_price, T.exit_price)

\* simulate_trades on a posts table that holds the one event of post time pt:
\* the rows from j on, with the event's thresholds and position
RECURSIVE SoloScan(_, _, _, _, _, _, _)
SoloScan(pt, j, ls, ss, side, entry, et) ==
    IF j > Len(book) THEN << >>
    ELSE IF side = None
    THEN IF EntryLongCond(Price(j), ls)
         THEN SoloScan(pt, j + 1, ls, ss, "long", EntryLong(ls, Slippage(book[j])), Ts(j))
         ELSE IF EntryShortCond(Price(j), ss)
         THEN SoloScan(pt, j + 1, ls, ss, "short", EntryShort(ss, Slippage(book[j])), Ts(j))
         ELSE SoloScan(pt, j + 1, ls, ss, side, entry, et)
    ELSE LET tpv == IF side = "long" THEN TpLong(entry) ELSE TpShort(entry)
             slv == IF side = "long" THEN SlLong(entry) ELSE SlShort(entry)
             r == IF side = "long"
                  THEN ExitReasonLong(Price(j), Ts(j), tpv, slv, et + TIME_EXIT_MS)
                  ELSE ExitReasonShort(Price(j), Ts(j), tpv, slv, et + TIME_EXIT_MS)
             xp == ExitPrice(r, Price(j), tpv, slv)
         IN  IF r = None THEN SoloScan(pt, j + 1, ls, ss, side, entry, et)
             ELSE << Trade(pt, et, Ts(j), side, entry, xp,
                           IF side = "long" THEN PnlBp(xp, entry, entry)
                           ELSE PnlBp(entry, xp, entry), r) >>

\* what simulate_trades gives for the event alone: it raises, or returns a
\* list of no or one Trade
Solo(pt) ==
    LET arm_time == ArmTime(pt)
    IN  IF Cardinality(Matches(arm_time)) > 1
        THEN [raised |-> TRUE, trades |-> << >>]
        ELSE IF ~InIndex(arm_time) /\ searchsorted(arm_time) > Len(book)
        THEN [raised |-> FALSE, trades |-> << >>]
        ELSE LET k == IF InIndex(arm_time) THEN get_loc(arm_time)
                      ELSE searchsorted(arm_time)
             IN  [raised |-> FALSE,
                  trades |-> SoloScan(pt, k, LongStop(book[k]), ShortStop(book[k]),
                                      None, DecZero, 0)]

RECURSIVE SoloFrom(_)
SoloFrom(e) ==
    IF e > Len(posts) THEN << >> ELSE Solo(PostTime(e)).trades \o SoloFrom(e + 1)

\* what the run over all events returned: nothing when it raised
Returned == IF pc = "done" THEN trades ELSE << >>

\* C10: events are simulated independently: what the run over all events
\* gives for an event (its Trade or none) is what simulating that event alone
\* gives, whatever other events exist and whatever positions they hold, and
\* the per-event results in ascending post_time are the sequential output.
C10_Independent ==
    pc \in {"done", "error"} =>
        /\ Returned = SoloFrom(1)
        /\ \A e \in DOMAIN posts :
               { Returned[k] : k \in { n \in DOMAIN Returned :
                                          Returned[n].post_time = PostTime(e) } }
                   = { Solo(PostTime(e)).trades[k] : k \in DOMAIN Solo(PostTime(e)).trades }

-----------------------------------------------------------------------------
\* the rows whose timestamp lies in the closed interval [Ts(k) - w, Ts(k)]
ClosedWindow(k, w) == { j \in DOMAIN book : Ts(j) >= Ts(k) - w /\ Ts(j) <= Ts(k) }

SetMax(S) == CHOOSE x \in S : \A y \in S : x >= y

\* C11: for every update at time t, baseline_high(t) is the maximum and
\* baseline_low(t) the minimum of the prices of all updates with timestamp in
\* the closed interval [t - 60 s, t], an update exactly 60 s before t included,
\* for irregularly spaced streams as for regular ones.
C11_BaselineClosedWindow ==
    pc # "start" =>
        \A k \in DOMAIN book :
            /\ book[k].baseline_high = SetMax({ Price(j) : j \in ClosedWindow(k, 60000) })
            /\ book[k].baseline_low = SetMin({ Price(j) : j \in ClosedWindow(k, 60000) })

\* the sample standard deviation, over the rows of the closed interval
\* [Ts(k) - 1 s, Ts(k)], relative to the price of row k, in hundredths of a bp
StatedStdevBp(k) ==
    LET W == ClosedWindow(k, 1000)
        lo == SetMin(W)
        hi == SetMax(W)
        n == hi - lo + 1
        d == [j \in lo..hi |-> Price(j) - 9000]
        dd == [j \in lo..hi |-> d[j] * d[j]]
        s1 == SumFrom(d, lo, hi)
        s2 == SumFrom(dd, lo, hi)
        std == IF n < 2 THEN 0
               ELSE Isqrt(((n * s2 - s1 * s1) * 10000) \div (n * (n - 1)))
    IN  2 * ((std * 5000) \div Price(k))

\* C12: rolling_stdev_bp(t) is computed over exactly the updates with
\* timestamp in the closed interval [t - 1 s, t], an update exactly 1 s before
\* t included, and is 0 exactly when fewer than two updates fall in it.
C12_StdevClosedWindow ==
    pc # "start" =>
        \A k \in DOMAIN book :
            /\ book[k].rolling_1s_stdev_bp = StatedStdevBp(k)
            /\ (book[k].rolling_1s_stdev_bp = 0) <=> (Cardinality(ClosedWindow(k, 1000)) < 2)

\* C13: calc_x_bp is total, monotonic non-decreasing and clamped: 2.0 for
\* every stdev_bp <= 4, 8.0 for every stdev_bp >= 16, exactly 0.5 * stdev_bp
\* in between; the result always lies in [2.0, 8.0].
C13_Clamped ==
    pc = "calc_done" =>
        /\ x_bp \in Int
        /\ cur_stdev_bp <= 400 => x_bp = 200
        /\ cur_stdev_bp >= 1600 => x_bp = 800
        /\ (cur_stdev_bp > 400 /\ cur_stdev_bp < 1600) => 2 * x_bp = cur_stdev_bp
        /\ x_bp >= 200 /\ x_bp <= 800
        /\ \A s \in StdevInputs : s >= cur_stdev_bp => calc_x_bp(s) >= x_bp

\* calc_x_bp(10) = 5, strictly between the clamps
C13_Witness == pc = "calc_done" /\ cur_stdev_bp = 1000 /\ x_bp = 500

\* the slippage the specification states for an entry on row n
StatedSlippage(n) ==
    LET spread == IF "spread_bp" \in DOMAIN book[n] THEN book[n].spread_bp ELSE 0
        param == IF "slip_bp_param" \in DOMAIN config THEN config.slip_bp_param ELSE 100
    IN  Max(spread \div 2, param)

RawOf(e) == { k \in DOMAIN posts_df : FloorSec(posts_df[k]) = PostTime(e) }

\* C15: align_posts attributes each raw post to one one-second bucket, none
\* counted twice; and, latency_ms being >= 0, no event is armed on a book
\* update whose timestamp is earlier than the raw timestamp of the earliest
\* post aggregated into that event.
C15_NoLookahead ==
    pc # "start" =>
        /\ \A k \in DOMAIN posts_df :
               Cardinality({ e \in DOMAIN posts : k \in RawOf(e) }) = 1
        /\ \A e \in DOMAIN posts : posts[e].post_count = Cardinality(RawOf(e))
        /\ \A e \in DOMAIN hist :
               hist[e].start_idx > 0 =>
                   Ts(hist[e].start_idx) >= SetMin({ posts_df[k] : k \in RawOf(e) })

\* the rows of the table are in non-decreasing timestamp order
Chronological(df) == \A j, k \in DOMAIN df : j < k => df[j].timestamp <= df[k].timestamp

\* C16: a book table whose timestamps are not in chronological order is
\* rejected with an input error before simulation: no event is processed, no
\* trade is produced, and the rows are not reordered and simulated.
C16_RejectsUnsorted ==
    ~Chronological(book_df) =>
        /\ pc \in {"start", "error"}
        /\ book = << >>
        /\ hist = << >>
        /\ trades = << >>

\* C17: a configuration whose slip_bp_param is negative is rejected with a
\* configuration error at load time, before any event is simulated; no Trade
\* is ever produced using a negative slip_bp_param.
C17_RejectsNegativeSlip ==
    ("slip_bp_param" \in DOMAIN config /\ config.slip_bp_param < 0) =>
        /\ pc \in {"start", "error"}
        /\ hist = << >>
        /\ trades = << >>

\* C18: a position opened at update i is closed at an update j strictly
\* after i and no later than the first update after i whose timestamp is
\* >= entry_time + 180 s; whenever such an update exists a Trade is produced
\* for the event; no update beyond j is examined for it.
C18_BoundedResponse ==
    \A e \in DOMAIN hist :
        hist[e].entry_idx > 0 =>
            LET h == hist[e]
                n == h.entry_idx
                x == h.exit_idx
                D == RowsAtDeadline(e)
            IN  /\ x > 0 =>
                       /\ x > n
                       /\ h.last = x
                       /\ D # {} => x <= SetMin(D)
                       /\ Cardinality(TradesOf(h.post_time)) = 1
                       /\ TradeOf(h.post_time).exit_time = Ts(x)
                       /\ TradeOf(h.post_time).entry_time = Ts(n)
                /\ (x = 0 /\ D # {}) =>
                       /\ ~Finished(e)
                       /\ h.last < SetMin(D)
                /\ (Finished(e) /\ D # {}) => x > 0

\* a position closed, by the time exit, on the first update at or after
\* entry_time + 180 s, the scan stopping there
C18_Witness ==
    \E e \in DOMAIN hist :
        /\ hist[e].entry_idx > 0
        /\ RowsAtDeadline(e) # {}
        /\ hist[e].exit_idx = SetMin(RowsAtDeadline(e))
        /\ hist[e].last = hist[e].exit_idx
        /\ TradeOf(hist[e].post_time).exit_reason = "time"

\* C19: for every armed event, short_stop < baseline_low <= price of the
\* armed update <= baseline_high < long_stop; so no position is opened on the
\* armed update itself, and no update meets the Long and the Short entry
\* condition together.
C19_BandAroundArmedPrice ==
    \A e \in DOMAIN hist :
        hist[e].start_idx > 0 =>
            LET a == hist[e].start_idx
                ls == hist[e].long_stop
                ss == hist[e].short_stop
            IN  /\ Lt(ss, Dec(book[a].baseline_low))
                /\ book[a].baseline_low <= Price(a)
                /\ Price(a) <= book[a].baseline_high
                /\ Lt(Dec(book[a].baseline_high), ls)
                /\ (e = ev /\ pc = "scan") => (long_stop = ls /\ short_stop = ss)
                /\ hist[e].entry_idx # a
                /\ hist[e].entry_idx > 0 => hist[e].entry_idx > a
                /\ \A j \in DOMAIN book : ~(CrossedLong(ls, j) /\ CrossedShort(ss, j))

\* an event armed on an update that is the high of a window holding a lower
\* price, and entered on the next update
C19_Witness ==
    \E e \in DOMAIN hist :
        /\ hist[e].start_idx > 0
        /\ Price(hist[e].start_idx) = book[hist[e].start_idx].baseline_high
        /\ book[hist[e].start_idx].baseline_low < book[hist[e].start_idx].baseline_high
        /\ hist[e].entry_idx = hist[e].start_idx + 1

\* the event whose scan produced trade k
EventOf(k) == CHOOSE e \in DOMAIN hist : hist[e].post_time = trades[k].post_time

\* pnl_bp = c, resp. pnl_bp < c, for a pnl of magnitude num / den * 10000
\* and a whole number c >= 0 of bp
MagnitudeIs(pnl, c) == MulInt(pnl.num, 10000) = MulInt(pnl.den, c)
MagnitudeBelow(pnl, c) == Lt(MulInt(pnl.num, 10000), MulInt(pnl.den, c))

\* C20: for every Trade of either side, TakeProfit gives exit_price = tp and
\* pnl_bp = +12, StopLoss gives exit_price = sl and pnl_bp = -6, TimeExit gives
\* exit_price = the market price of the exit update and -6 < pnl_bp < +12;
\* hence -6 <= pnl_bp <= 12 for all trades, however far the price gaps.
C20_BracketBoundsPnl ==
    \A k \in DOMAIN trades :
        LET T == trades[k]
            pnl == T.pnl_bp
            tpv == MulBp(T.entry_price, IF T.side = "long" THEN 1200 ELSE 0 - 1200)
            slv == MulBp(T.entry_price, IF T.side = "long" THEN 0 - 600 ELSE 600)
        IN  /\ ~pnl.nan
            /\ T.exit_reason = "tp" =>
                   /\ T.exit_price = tpv
                   /\ pnl.sign = 1
                   /\ MagnitudeIs(pnl, 12)
            /\ T.exit_reason = "sl" =>
                   /\ T.exit_price = slv
                   /\ pnl.sign = 0 - 1
                   /\ MagnitudeIs(pnl, 6)
            /\ T.exit_reason = "time" =>
                   /\ T.exit_price = Dec(Price(hist[EventOf(k)].exit_idx))
                   /\ pnl.sign >= 0 => MagnitudeBelow(pnl, 12)
                   /\ pnl.sign < 0 => MagnitudeBelow(pnl, 6)
            /\ IF pnl.sign >= 0 THEN ~MagnitudeBelow(pnl, 12) => MagnitudeIs(pnl, 12)
               ELSE ~MagnitudeBelow(pnl, 6) => MagnitudeIs(pnl, 6)

=============================================================================
